---- MODULE Spec2Model ----
(***************************************************************************)
(* The indexing pipeline of ord (src/index/updater.rs): a producer thread  *)
(* that fetches blocks into a bounded queue, and a consumer that applies   *)
(* them to the tables of one write transaction, with a write cache for     *)
(* the outpoint -> sat ranges table.                                       *)
(*                                                                         *)
(* Amounts and sat numbers are counted in coins (COIN_VALUE = 10^8 sat):   *)
(* the first subsidy is 50, and the arithmetic on them is the code's.      *)
(***************************************************************************)
EXTENDS Integers, Sequences, FiniteSets, TLC

VARIABLES
  source,          \* the node's chain: source[h + 1] is the block at height h
  index_satoshis,  \* index.has_satoshi_index()
  mainnet,         \* index.chain = Chain::Mainnet
  height_limit,    \* index.height_limit, NoLimit for None
  committed,       \* the tables as of the last commit of a write transaction
  wtx,             \* the tables as the open write transaction sees them
  updater,         \* the fields of Updater
  uncommitted,     \* update_index's local counter
  cpc,             \* where the consumer is: idle, recv, index, begin, done
  cur,             \* the block the consumer received and is indexing
  result,          \* what update returned
  ppc,             \* where the producer thread is: off, fetch, send, done
  pheight,         \* the producer's height
  pblock,          \* the block the producer fetched and is sending
  queue,           \* the blocks sent and not yet received
  INTERRUPTS,      \* the process-wide interrupt counter
  reorged,         \* index.reorged
  hist,            \* history of the run, for stating the properties
  probe            \* the state of a function run on its own: its inputs and results

vars == <<source, index_satoshis, mainnet, height_limit, committed, wtx, updater,
          uncommitted, cpc, cur, result, ppc, pheight, pblock, queue, INTERRUPTS,
          reorged, hist, probe>>

----------------------------------------------------------------------------
(* Tables: a table is a function from its keys to its values.              *)

EmptyTable == <<>>

Has(t, k) == k \in DOMAIN t

Put(t, k, v) == [x \in (DOMAIN t) \cup {k} |-> IF x = k THEN v ELSE t[x]]

Del(t, k) == [x \in (DOMAIN t) \ {k} |-> t[x]]

RECURSIVE SumSeq(_)
SumSeq(s) == IF s = <<>> THEN 0 ELSE Head(s) + SumSeq(Tail(s))

----------------------------------------------------------------------------
(* Keys.  A txid is <<height, position in the block, fork>>; an outpoint   *)
(* is <<txid, vout>>; a satpoint is <<outpoint, offset>>.                  *)

NullTxid == <<-1, -1, -1>>

NullOutPoint == <<NullTxid, -1>>

OutPoint(txid, vout) == <<txid, vout>>

SatPoint(outpoint, offset) == <<outpoint, offset>>

----------------------------------------------------------------------------
(* The 11-byte range record.  Numbers are bit sequences, least significant *)
(* bit first, so that the widths of the code (u64, u128, 51, 88) are kept. *)

RECURSIVE ToBits(_, _)
ToBits(n, w) == IF w = 0 THEN <<>> ELSE <<n % 2>> \o ToBits(n \div 2, w - 1)

RECURSIVE FromBits(_)
FromBits(b) == IF b = <<>> THEN 0 ELSE Head(b) + 2 * FromBits(Tail(b))

BitOr(x, y) == IF x + y > 0 THEN 1 ELSE 0

\* a variant of the packing that shifts the size by 50 bits
PackBitsShort(base, delta) ==
  [i \in 1..128 |->
     BitOr(IF i <= 64 THEN base[i] ELSE 0,
           IF i > 50 /\ i <= 50 + 64 THEN delta[i - 50] ELSE 0)]

\* u128::from(base) | u128::from(delta) << 51
PackBits(base, delta) ==
  [i \in 1..128 |->
     BitOr(IF i <= 64 THEN base[i] ELSE 0,
           IF i > 51 /\ i <= 51 + 64 THEN delta[i - 51] ELSE 0)]

\* n.to_le_bytes()[0..11]
LeBytes11(n) == [j \in 1..11 |-> FromBits(SubSeq(n, 8 * (j - 1) + 1, 8 * j))]

EncodeRange(start, end) ==
  LeBytes11(PackBits(ToBits(start, 64), ToBits(end - start, 64)))

RECURSIVE BytesToBits(_)
BytesToBits(bytes) ==
  IF bytes = <<>> THEN <<>> ELSE ToBits(Head(bytes), 8) \o BytesToBits(Tail(bytes))

\* Index::decode_sat_range, the fields of a record: the low 51 bits are the
\* start, the bits above them the size
DecodeFields(bytes) ==
  [base  |-> SubSeq(BytesToBits(bytes), 1, 51),
   delta |-> SubSeq(BytesToBits(bytes), 52, 88)]

\* Index::decode_sat_range: (base, base + delta)
decode_sat_range(bytes) ==
  LET base == FromBits(DecodeFields(bytes).base)
  IN <<base, base + FromBits(DecodeFields(bytes).delta)>>

\* sat_ranges.chunks_exact(11) decoded, in order
RECURSIVE DecodeList(_)
DecodeList(bytes) ==
  IF Len(bytes) < 11 THEN <<>>
  ELSE <<decode_sat_range(SubSeq(bytes, 1, 11))>> \o DecodeList(SubSeq(bytes, 12, Len(bytes)))

RangeSize(r) == r[2] - r[1]

RECURSIVE TotalSize(_)
TotalSize(ranges) ==
  IF ranges = <<>> THEN 0 ELSE RangeSize(Head(ranges)) + TotalSize(Tail(ranges))

----------------------------------------------------------------------------
(* Height::subsidy, Height::starting_sat, Sat::is_common.                  *)

InitialSubsidy == 50

HalvingInterval == 210000

LastHalving == 33

RECURSIVE Halve(_, _)
Halve(n, k) == IF k = 0 THEN n ELSE Halve(n \div 2, k - 1)

subsidy(h) ==
  IF h \div HalvingInterval >= LastHalving THEN 0
  ELSE Halve(InitialSubsidy, h \div HalvingInterval)

RECURSIVE EpochStart(_)
EpochStart(e) ==
  IF e = 0 THEN 0
  ELSE EpochStart(e - 1) + HalvingInterval * subsidy((e - 1) * HalvingInterval)

starting_sat(h) ==
  EpochStart(h \div HalvingInterval) + (h % HalvingInterval) * subsidy(h)

\* a sat is uncommon or rarer when it is the first sat of a block
is_common(sat) == sat % InitialSubsidy # 0

----------------------------------------------------------------------------
(* The tables of the store, and the fields of Updater.                     *)

NoStats == [OutputsTraversed |-> 0, SatRanges |-> 0, Commits |-> 0]

EmptyStore ==
  [h2h     |-> EmptyTable,   \* HEIGHT_TO_BLOCK_HASH
   starts  |-> {},           \* keys of WRITE_TRANSACTION_STARTING_BLOCK_COUNT_TO_TIMESTAMP
   o2r     |-> EmptyTable,   \* OUTPOINT_TO_SAT_RANGES
   sat2sp  |-> EmptyTable,   \* SAT_TO_SATPOINT
   sat2ins |-> EmptyTable,   \* SAT_TO_INSCRIPTION_ID
   i2s     |-> EmptyTable,   \* INSCRIPTION_ID_TO_SATPOINT
   s2i     |-> EmptyTable,   \* SATPOINT_TO_INSCRIPTION_ID
   stats   |-> NoStats]      \* STATISTIC_TO_COUNT

NewUpdater(height, sats) ==
  [cache |-> EmptyTable,
   height |-> height,
   index_satoshis |-> sats,
   sat_ranges_since_flush |-> 0,
   outputs_cached |-> 0,
   outputs_inserted_since_flush |-> 0,
   outputs_traversed |-> 0]

\* .range(0..).rev().next().map(|(height, _hash)| height + 1).unwrap_or(0)
\* (the last key is the key that no key exceeds; its successor is then no key)
StoredHeight(h2h) ==
  IF DOMAIN h2h = {} THEN 0
  ELSE (CHOOSE k \in DOMAIN h2h : ~Has(h2h, k + 1) /\ \A j \in DOMAIN h2h : j <= k) + 1

----------------------------------------------------------------------------
(* index_transaction_inscriptions                                          *)

NewSatPoint(txid) == SatPoint(OutPoint(txid, 0), 0)

\* the new inscription of an inscribing transaction
Inscribe(w, tx) ==
  IF tx.inscribed
  THEN [w EXCEPT !.i2s = Put(@, tx.txid, NewSatPoint(tx.txid)),
                 !.s2i = Put(@, NewSatPoint(tx.txid), tx.txid)]
  ELSE w

\* a variant that leaves the old row in place
MoveRowKeeping(w, old, id, txid) ==
  [w EXCEPT !.s2i = Put(@, NewSatPoint(txid), id),
            !.i2s = Put(@, id, NewSatPoint(txid))]

\* one collected row moved to the first sat of the first output
MoveRow(w, old, id, txid) ==
  [w EXCEPT !.s2i = Put(Del(@, old), NewSatPoint(txid), id),
            !.i2s = Put(@, id, NewSatPoint(txid))]

\* the loop over the rows collected under one input, in key order
RECURSIVE MoveInscriptions(_, _, _, _)
MoveInscriptions(w, rows, hits, txid) ==
  IF hits = {} THEN w
  ELSE LET old == CHOOSE x \in hits : \A y \in hits : x[2] <= y[2]
       IN MoveInscriptions(MoveRow(w, old, rows[old], txid), rows, hits \ {old}, txid)

\* the loop over the inputs: the rows whose satpoint lies in the input's outpoint
RECURSIVE ScanInputs(_, _, _)
ScanInputs(w, inputs, txid) ==
  IF inputs = <<>> THEN w
  ELSE LET hits == {sp \in DOMAIN w.s2i : sp[1] = Head(inputs)}
       IN ScanInputs(MoveInscriptions(w, w.s2i, hits, txid), Tail(inputs), txid)

index_transaction_inscriptions(w, tx) == ScanInputs(Inscribe(w, tx), tx.input, tx.txid)

----------------------------------------------------------------------------
(* index_transaction_sats.  s is the state the function works on: the      *)
(* tables w of the write transaction, the updater up, the deque dq, the    *)
(* counters of index_block and the error it returned, if any.              *)

\* a variant that pushes the popped range back whole
SplitRestWhole(range, remaining) == range

\* the leftover of a range that is larger than what the output still needs
SplitRest(range, remaining) == <<range[1] + remaining, range[2]>>

\* a variant that assigns the popped range whole, without the split
AssignedWhole(range, remaining) == range

\* the part of the popped range assigned to the output
Assigned(range, remaining) ==
  IF RangeSize(range) > remaining THEN <<range[1], range[1] + remaining>> ELSE range

\* one iteration of the while loop, after the pop
AssignStep(s, outpoint, value, remaining) ==
  LET range == Head(s.dq)
      split == RangeSize(range) > remaining
  IN [s EXCEPT
        !.w.sat2sp = IF is_common(range[1]) THEN @
                     ELSE Put(@, range[1], SatPoint(outpoint, value - remaining)),
        !.dq = IF split THEN <<SplitRest(range, remaining)>> \o Tail(s.dq) ELSE Tail(s.dq),
        !.up.sat_ranges_since_flush = IF split THEN @ + 1 ELSE @,
        !.written = @ + 1]

RECURSIVE AssignRanges(_, _, _, _, _)
AssignRanges(s, outpoint, value, remaining, sats) ==
  IF remaining <= 0 THEN [s |-> s, sats |-> sats]
  ELSE IF s.dq = <<>> THEN [s |-> [s EXCEPT !.err = "insufficient"], sats |-> sats]
  ELSE LET a == Assigned(Head(s.dq), remaining)
       IN AssignRanges(AssignStep(s, outpoint, value, remaining), outpoint, value,
                       remaining - (a[2] - a[1]), sats \o EncodeRange(a[1], a[2]))

\* self.cache.insert(encode_outpoint(outpoint), sats)
CacheInsert(up, outpoint, sats) ==
  [up EXCEPT !.cache = Put(@, outpoint, sats),
             !.outputs_inserted_since_flush = @ + 1]

\* the end of the loop body for one output: the output's ranges are cached
OutputDone(r, outpoint) ==
  IF r.s.err # "none" THEN r.s
  ELSE [r.s EXCEPT !.oib = @ + 1, !.up = CacheInsert(@, outpoint, r.sats)]

RECURSIVE AssignOutputs(_, _, _)
AssignOutputs(s, tx, vout) ==
  IF s.err # "none" \/ vout >= Len(tx.output) THEN s
  ELSE AssignOutputs(
         OutputDone(AssignRanges(s, OutPoint(tx.txid, vout), tx.output[vout + 1],
                                 tx.output[vout + 1], <<>>),
                    OutPoint(tx.txid, vout)),
         tx, vout + 1)

\* sat_to_inscription_id.insert(&start, txid) for the front of the deque
MarkInscribedSat(w, dq, tx) ==
  IF tx.inscribed /\ dq # <<>> THEN [w EXCEPT !.sat2ins = Put(@, dq[1][1], tx.txid)] ELSE w

index_transaction_sats(s, tx) ==
  AssignOutputs(
    [s EXCEPT !.w = MarkInscribedSat(index_transaction_inscriptions(s.w, tx), s.dq, tx)],
    tx, 0)

----------------------------------------------------------------------------
(* index_block.  The deque coinbase_inputs is the field cb of the state.   *)

\* the ranges of one input: from the cache first, else removed from the table
TakeInput(s, key) ==
  IF Has(s.up.cache, key)
  THEN [s EXCEPT !.up.cache = Del(@, key),
                 !.up.outputs_cached = @ + 1,
                 !.dq = @ \o DecodeList(s.up.cache[key])]
  ELSE IF Has(s.w.o2r, key)
  THEN [s EXCEPT !.w.o2r = Del(@, key),
                 !.dq = @ \o DecodeList(s.w.o2r[key])]
  ELSE [s EXCEPT !.err = "missing"]

RECURSIVE TakeInputs(_, _)
TakeInputs(s, inputs) ==
  IF s.err # "none" \/ inputs = <<>> THEN s
  ELSE TakeInputs(TakeInput(s, Head(inputs)), Tail(inputs))

\* a variant that puts the fees in front of what the deque holds
SweepFeesFirst(s) == IF s.err # "none" THEN s ELSE [s EXCEPT !.cb = s.dq \o @]

\* coinbase_inputs.extend(input_sat_ranges)
SweepFees(s) == IF s.err # "none" THEN s ELSE [s EXCEPT !.cb = @ \o s.dq]

\* index_transaction_sats on the deque of the inputs, unless an input was missing
IndexTransaction(s, tx) == IF s.err # "none" THEN s ELSE index_transaction_sats(s, tx)

\* the loop over the transactions after the coinbase
RECURSIVE IndexTransactions(_, _, _)
IndexTransactions(s, txdata, i) ==
  IF s.err # "none" \/ i > Len(txdata) THEN s
  ELSE IndexTransactions(
         SweepFees(IndexTransaction(TakeInputs([s EXCEPT !.dq = <<>>], txdata[i].input),
                                    txdata[i])),
         txdata, i + 1)

\* a variant that starts every subsidy range at sat 0
SubsidyRangesFromZero(h) ==
  IF subsidy(h) > 0 THEN <<<<0, subsidy(h)>>>> ELSE <<>>

\* the subsidy range of the block at height h, when there is a subsidy
SubsidyRanges(h) ==
  IF subsidy(h) > 0 THEN <<<<starting_sat(h), starting_sat(h) + subsidy(h)>>>> ELSE <<>>

\* coinbase_inputs.push_front of the subsidy range
PushSubsidy(s) ==
  [s EXCEPT !.cb = SubsidyRanges(s.up.height),
            !.up.sat_ranges_since_flush = IF subsidy(s.up.height) > 0 THEN @ + 1 ELSE @]

\* the coinbase transaction, last, on coinbase_inputs
IndexCoinbase(s, txdata) ==
  IF s.err # "none" \/ txdata = <<>> THEN s
  ELSE index_transaction_sats([s EXCEPT !.dq = s.cb], txdata[1])

IndexSats(s, block) ==
  IndexCoinbase(IndexTransactions(PushSubsidy(s), block.txdata, 2), block.txdata)

RECURSIVE IndexInscriptions(_, _)
IndexInscriptions(w, txdata) ==
  IF txdata = <<>> THEN w
  ELSE IndexInscriptions(index_transaction_inscriptions(w, Head(txdata)), Tail(txdata))

\* a variant of the guard that accepts every block
ReorgGuardOff(h2h, height, block) == "none"

\* the reorg guard: "none", "reorg", or "panic" for the unwrap of a missing row
ReorgGuard(h2h, height, block) ==
  IF height = 0 THEN "none"
  ELSE IF ~Has(h2h, height - 1) THEN "panic"
  ELSE IF h2h[height - 1] # block.prev THEN "reorg"
  ELSE "none"

\* a variant that records the hash of the parent block
FinishBlockWithParent(s, block) ==
  IF s.err # "none" THEN s
  ELSE [s EXCEPT !.w.h2h = Put(@, s.up.height, block.prev),
                 !.up.height = @ + 1,
                 !.up.outputs_traversed = @ + s.oib]

\* the end of a block: its hash is recorded and the height advances
FinishBlock(s, block) ==
  IF s.err # "none" THEN s
  ELSE [s EXCEPT !.w.h2h = Put(@, s.up.height, block.hash),
                 !.up.height = @ + 1,
                 !.up.outputs_traversed = @ + s.oib]

\* the two branches on self.index_satoshis
IndexTransactionsOf(s, block) ==
  IF s.up.index_satoshis THEN IndexSats(s, block)
  ELSE [s EXCEPT !.w = IndexInscriptions(@, block.txdata)]

\* a variant that applies the block whatever the guard found
Unguarded(guard, s, block) == FinishBlock(IndexTransactionsOf(s, block), block)

\* the body of index_block behind the guard
Guarded(guard, s, block) ==
  IF guard # "none" THEN [s EXCEPT !.err = guard]
  ELSE FinishBlock(IndexTransactionsOf(s, block), block)

index_block(w, up, block) ==
  Guarded(ReorgGuard(w.h2h, up.height, block),
          [w |-> w, up |-> up, err |-> "none", dq |-> <<>>, cb |-> <<>>,
           written |-> 0, oib |-> 0],
          block)

----------------------------------------------------------------------------
(* commit                                                                  *)

\* for (k, v) in &self.cache { outpoint_to_sat_ranges.insert(k, v) }
Flush(o2r, cache) ==
  [k \in (DOMAIN o2r) \cup (DOMAIN cache) |-> IF Has(cache, k) THEN cache[k] ELSE o2r[k]]

increment_statistic(stats, up) ==
  [OutputsTraversed |-> stats.OutputsTraversed + up.outputs_traversed,
   SatRanges |-> stats.SatRanges + up.sat_ranges_since_flush,
   Commits |-> stats.Commits + 1]

\* the tables the commit makes durable
CommitTables(w, up) ==
  [w EXCEPT !.o2r = IF up.index_satoshis THEN Flush(@, up.cache) ELSE @,
            !.stats = increment_statistic(@, up)]

\* a variant of the commit that keeps the cache
CommitKeepingCache(up) ==
  [up EXCEPT !.outputs_inserted_since_flush = IF up.index_satoshis THEN 0 ELSE @,
             !.outputs_traversed = 0,
             !.sat_ranges_since_flush = 0]

\* a variant of the commit that keeps the counters it has added
CommitKeepingCounters(up) ==
  [up EXCEPT !.cache = IF up.index_satoshis THEN EmptyTable ELSE @,
             !.outputs_inserted_since_flush = IF up.index_satoshis THEN 0 ELSE @]

\* the updater after the commit
CommitUpdater(up) ==
  [up EXCEPT !.cache = IF up.index_satoshis THEN EmptyTable ELSE @,
             !.outputs_inserted_since_flush = IF up.index_satoshis THEN 0 ELSE @,
             !.outputs_traversed = 0,
             !.sat_ranges_since_flush = 0]

----------------------------------------------------------------------------
(* The source: the blocks a node can serve.  A block hash is               *)
(* <<height, fork>>; the parent of the genesis block is GenesisPrev.       *)

MaxHeight == 3        \* blocks of a chain with transactions

IndexedTip == 10      \* the long chain has the blocks 0..IndexedTip

ReplacedFrom == 9     \* a reorganisation replaces the blocks from this height

MaxForks == 1         \* reorganisations of the source

MaxInterrupts == 1    \* interrupts delivered to one process

MaxStart == 1         \* stored height at which a long run begins

BatchTail == 2        \* blocks a long run is short of a full batch

BatchAfter == 1       \* blocks the source holds beyond the full batch

QueueExtra == 3       \* blocks of the long-queue chain beyond the queue's capacity

NoLimit == -1

GenesisPrev == <<-1, -1>>

Coinbase(h, f, outs) ==
  [txid |-> <<h, 0, f>>, input |-> <<NullOutPoint>>, output |-> outs, inscribed |-> FALSE]

Spend(h, i, ins, outs, insc) ==
  [txid |-> <<h, i, 0>>, input |-> ins, output |-> outs, inscribed |-> insc]

TipHash(chain) == IF chain = <<>> THEN GenesisPrev ELSE chain[Len(chain)].hash

MkBlock(chain, f, txdata) ==
  [hash |-> <<Len(chain), f>>, prev |-> TipHash(chain), txdata |-> txdata]

RECURSIVE Flatten(_)
Flatten(ss) == IF ss = <<>> THEN <<>> ELSE Head(ss) \o Flatten(Tail(ss))

AllTxs(chain) == Flatten([i \in 1..Len(chain) |-> chain[i].txdata])

Outputs(tx) == [v \in 1..Len(tx.output) |-> <<OutPoint(tx.txid, v - 1), tx.output[v]>>]

Created(chain) == LET txs == AllTxs(chain) IN Flatten([i \in 1..Len(txs) |-> Outputs(txs[i])])

\* the unspent outputs of a chain, oldest first, each <<outpoint, value>>
Unspent(chain) ==
  LET spent == UNION {{tx.input[j] : j \in 1..Len(tx.input)} :
                        tx \in {AllTxs(chain)[i] : i \in 1..Len(AllTxs(chain))}}
      IsLive(e) == e[1] \notin spent
  IN SelectSeq(Created(chain), IsLive)

GenesisKinds == {"one", "two", "under"}

GoodKinds == {"plain", "move", "split", "merge", "relay"}

BadKinds == {"over", "twice"}

\* the transactions of the block of a kind on top of a chain
TxData(chain, kind) ==
  LET h == Len(chain)
      live == Unspent(chain)
      a == live[1]
      b == live[Len(live)]
      both == IF Len(live) > 1 THEN <<a[1], b[1]>> ELSE <<a[1]>>
      sum == IF Len(live) > 1 THEN a[2] + b[2] ELSE a[2]
      fee == IF a[2] >= 4 THEN 2 ELSE 0
      half == (a[2] - fee) \div 2
      tip == IF a[2] > 0 THEN 1 ELSE 0
      less == IF sum > 0 THEN 1 ELSE 0
  IN CASE kind = "one"   -> <<Coinbase(h, 0, <<subsidy(h)>>)>>
       [] kind = "two"   -> <<Coinbase(h, 0, <<30, subsidy(h) - 30>>)>>
       [] kind = "under" -> <<Coinbase(h, 0, <<subsidy(h) - 10>>)>>
       [] kind = "plain" -> <<Coinbase(h, 0, <<subsidy(h)>>)>>
       \* the oldest output moved whole, no fee
       [] kind = "move"  -> <<Coinbase(h, 0, <<subsidy(h)>>),
                              Spend(h, 1, <<a[1]>>, <<a[2]>>, FALSE)>>
       \* the oldest output split in two by an inscribing transaction, with a fee
       [] kind = "split" -> <<Coinbase(h, 0, <<subsidy(h) + fee>>),
                              Spend(h, 1, <<a[1]>>, <<half, a[2] - fee - half>>, TRUE)>>
       \* the oldest and the newest output merged, the fee not claimed
       [] kind = "merge" -> <<Coinbase(h, 0, <<subsidy(h)>>),
                              Spend(h, 1, both, <<sum - less>>, TRUE)>>
       \* an output created and spent in the same block, both inscribing
       [] kind = "relay" -> <<Coinbase(h, 0, <<subsidy(h), tip>>),
                              Spend(h, 1, <<a[1]>>, <<a[2] - tip>>, TRUE),
                              Spend(h, 2, <<OutPoint(<<h, 1, 0>>, 0)>>, <<0, a[2] - tip>>, TRUE)>>
       \* outputs worth more than the inputs
       [] kind = "over"  -> <<Coinbase(h, 0, <<subsidy(h)>>),
                              Spend(h, 1, both, <<sum + 1>>, FALSE)>>
       \* an outpoint that is already spent when its turn comes
       [] kind = "twice" -> <<Coinbase(h, 0, <<subsidy(h)>>),
                              Spend(h, 1, <<a[1]>>, <<a[2]>>, FALSE),
                              Spend(h, 2, <<b[1], a[1]>>, <<1>>, TRUE)>>

Extend(chain, kind) == Append(chain, MkBlock(chain, 0, TxData(chain, kind)))

\* the chains of n blocks; a block that cannot be indexed is the last one
RECURSIVE Chains(_)
Chains(n) ==
  IF n = 1 THEN {Extend(<<>>, k) : k \in GenesisKinds}
  ELSE {Extend(c, k) : c \in Chains(n - 1),
                       k \in GoodKinds \cup (IF n = MaxHeight THEN BadKinds ELSE {})}

\* the chain of n blocks that hold a coinbase transaction only
PlainBlock(h) ==
  [hash |-> <<h, 0>>,
   prev |-> IF h = 0 THEN GenesisPrev ELSE <<h - 1, 0>>,
   txdata |-> <<Coinbase(h, 0, <<subsidy(h)>>)>>]

PlainChain(n) == [i \in 1..n |-> PlainBlock(i - 1)]

\* the blocks of fork f put on top of a chain until it has n blocks
RECURSIVE Fork(_, _, _)
Fork(chain, f, n) ==
  IF Len(chain) >= n THEN chain
  ELSE Fork(Append(chain, MkBlock(chain, f, <<Coinbase(Len(chain), f, <<subsidy(Len(chain))>>)>>)),
            f, n)

ForkOf(chain) == IF chain = <<>> THEN 0 ELSE chain[Len(chain)].hash[2]

----------------------------------------------------------------------------
(* History kept for stating the properties: the height the run began at,   *)
(* whether the source was reorganised since, and a ledger without cache    *)
(* that follows the blocks applied (ref), with the value of every unspent  *)
(* output (utxo) and the outpoints spent (spent).                          *)

NoLedger == [ref |-> EmptyTable, utxo |-> EmptyTable, spent |-> {}]

NoHist ==
  [start |-> 0, changed |-> FALSE, led |-> NoLedger, saved |-> NoLedger,
   before |-> EmptyTable, late |-> 0]

\* the outpoint -> ranges map a reader sees: the cache first, else the table
View(w, up) == Flush(w.o2r, up.cache)

RECURSIVE RefAssign(_, _, _)
RefAssign(dq, remaining, sats) ==
  IF remaining <= 0 \/ dq = <<>> THEN [dq |-> dq, sats |-> sats]
  ELSE LET r == Head(dq)
           n == IF RangeSize(r) > remaining THEN remaining ELSE RangeSize(r)
           rest == IF RangeSize(r) > remaining THEN <<<<r[1] + n, r[2]>>>> ELSE <<>>
       IN RefAssign(rest \o Tail(dq), remaining - n, sats \o EncodeRange(r[1], r[1] + n))

RECURSIVE RefOutputs(_, _, _, _)
RefOutputs(ref, dq, tx, v) ==
  IF v > Len(tx.output) THEN [ref |-> ref, dq |-> dq]
  ELSE LET r == RefAssign(dq, tx.output[v], <<>>)
       IN RefOutputs(Put(ref, OutPoint(tx.txid, v - 1), r.sats), r.dq, tx, v + 1)

RECURSIVE RefInputs(_, _)
RefInputs(ref, ins) ==
  IF ins = <<>> THEN <<>> ELSE DecodeList(ref[Head(ins)]) \o RefInputs(ref, Tail(ins))

RECURSIVE RefDrop(_, _)
RefDrop(t, ins) == IF ins = <<>> THEN t ELSE RefDrop(Del(t, Head(ins)), Tail(ins))

RECURSIVE RefTxs(_, _, _, _)
RefTxs(ref, txdata, i, fees) ==
  IF i > Len(txdata) THEN [ref |-> ref, dq |-> fees]
  ELSE LET r == RefOutputs(RefDrop(ref, txdata[i].input), RefInputs(ref, txdata[i].input),
                           txdata[i], 1)
       IN RefTxs(r.ref, txdata, i + 1, fees \o r.dq)

RefBlock(ref, block, h) ==
  LET r == RefTxs(ref, block.txdata, 2, SubsidyRanges(h))
  IN IF block.txdata = <<>> THEN ref ELSE RefOutputs(r.ref, r.dq, block.txdata[1], 1).ref

RECURSIVE UtxoOutputs(_, _, _)
UtxoOutputs(utxo, tx, v) ==
  IF v > Len(tx.output) THEN utxo
  ELSE UtxoOutputs(Put(utxo, OutPoint(tx.txid, v - 1), tx.output[v]), tx, v + 1)

RECURSIVE UtxoTxs(_, _, _)
UtxoTxs(utxo, txdata, i) ==
  IF i > Len(txdata) THEN utxo
  ELSE UtxoTxs(UtxoOutputs(RefDrop(utxo, txdata[i].input), txdata[i], 1), txdata, i + 1)

BlockInputs(block) ==
  UNION {{block.txdata[i].input[j] : j \in 1..Len(block.txdata[i].input)} :
           i \in 2..Len(block.txdata)}

\* the ledger after a block applied at height h
LedgerAfter(led, block, h) ==
  [ref |-> RefBlock(led.ref, block, h),
   utxo |-> IF block.txdata = <<>> THEN led.utxo
            ELSE UtxoOutputs(UtxoTxs(led.utxo, block.txdata, 2), block.txdata[1], 1),
   spent |-> led.spent \cup BlockInputs(block)]

----------------------------------------------------------------------------
(* update, update_index and the producer thread of fetch_blocks_from.      *)

CommitInterval == 5000

QueueCapacity == 32

NoBlock == [hash |-> GenesisPrev, prev |-> GenesisPrev, txdata |-> <<>>]

Running == cpc \in {"recv", "index", "begin"}

ProducerExited == ppc \in {"none", "limit", "failed", "disconnected"}

\* index_satoshis || index.chain != Chain::Mainnet
with_transactions == index_satoshis \/ ~mainnet

\* get_block_with_retries answering Ok(Some(block)): the whole block, or its
\* header with an empty transaction list
Fetched(block, withtx) == IF withtx THEN block ELSE [block EXCEPT !.txdata = <<>>]

\* begin_write, and the row of the batch's starting time
BeginBatch(store, height) == [store EXCEPT !.starts = @ \cup {height}]

\* a variant that commits one block early
ShouldCommitEarly(n) == n = CommitInterval - 1

\* uncommitted == 5000
ShouldCommit(n) == n = CommitInterval

\* a variant of the loop that ignores INTERRUPTS
InterruptsIgnored(n) == FALSE

\* INTERRUPTS.load(atomic::Ordering::Relaxed) > 0
Interrupted(n) == n > 0

\* a variant that commits the transaction of a failed block
AbandonCommitting(store, w) == w

\* the store after index_block returned an error: the transaction is dropped
Abandon(store, w) == store

\* a variant that returns without the last commit
FinishDropping(store, w, up, n) == [c |-> store, up |-> up]

\* if uncommitted > 0 { self.commit(wtx)? } at the end of update_index
Finish(store, w, up, n) ==
  IF n > 0 THEN [c |-> CommitTables(w, up), up |-> CommitUpdater(up)]
  ELSE [c |-> store, up |-> up]

\* a process starts and calls update
Update ==
  /\ cpc \in {"idle", "done"}
  /\ LET height == StoredHeight(committed.h2h)
     IN /\ wtx' = BeginBatch(committed, height)
        /\ updater' = NewUpdater(height, index_satoshis)
        /\ pheight' = height
        /\ hist' = [hist EXCEPT !.start = height, !.changed = FALSE,
                                !.led = hist.saved, !.before = committed.o2r, !.late = 0]
  /\ uncommitted' = 0
  /\ cpc' = "recv"
  /\ cur' = NoBlock
  /\ result' = "none"
  /\ ppc' = "fetch"
  /\ pblock' = NoBlock
  /\ queue' = <<>>
  /\ INTERRUPTS' = 0
  /\ reorged' = FALSE
  /\ UNCHANGED <<probe, source, index_satoshis, mainnet, height_limit, committed>>

\* rx.recv() returns a block
Recv ==
  /\ cpc = "recv"
  /\ queue # <<>>
  /\ cur' = Head(queue)
  /\ queue' = Tail(queue)
  /\ cpc' = "index"
  /\ hist' = [hist EXCEPT !.late = IF INTERRUPTS > 0 THEN @ + 1 ELSE @]
  /\ UNCHANGED <<probe, source, index_satoshis, mainnet, height_limit, committed, wtx, updater,
                 uncommitted, result, ppc, pheight, pblock, INTERRUPTS, reorged>>

\* rx.recv() returns RecvError: the producer is gone and the queue is empty
RecvClosed ==
  /\ cpc = "recv"
  /\ queue = <<>>
  /\ ProducerExited
  /\ LET f == Finish(committed, wtx, updater, uncommitted)
     IN /\ committed' = f.c
        /\ wtx' = f.c
        /\ updater' = f.up
        /\ hist' = [hist EXCEPT !.saved = IF uncommitted > 0 THEN hist.led ELSE @]
  /\ cpc' = "done"
  /\ result' = "ok"
  /\ UNCHANGED <<probe, source, index_satoshis, mainnet, height_limit, uncommitted, cur, ppc,
                 pheight, pblock, queue, INTERRUPTS, reorged>>

\* a variant that goes on without comparing the heights
ReopenedBlind(c, up, height) ==
  [c |-> c, up |-> up, n |-> 0, begin |-> FALSE, raced |-> FALSE,
   w |-> BeginBatch(c, up.height)]

\* the new write transaction after the commit of a full batch: begin_write,
\* the height read again, and the break when another update has run
Reopened(c, up, height) ==
  [c |-> c, up |-> up, n |-> 0, begin |-> FALSE,
   raced |-> height # up.height,
   w |-> IF height # up.height THEN c ELSE BeginBatch(c, up.height)]

Rebegin(c, up) == Reopened(c, up, StoredHeight(c.h2h))

\* the commit of a full batch: the consumer goes on to begin_write
Committing(c, up) == [c |-> c, up |-> up, n |-> 0, begin |-> TRUE, raced |-> FALSE, w |-> c]

\* uncommitted += 1, and the commit when the batch is full
Batch(store, s, n) ==
  IF ShouldCommit(n) THEN Committing(CommitTables(s.w, s.up), CommitUpdater(s.up))
  ELSE [c |-> store, up |-> s.up, n |-> n, begin |-> FALSE, raced |-> FALSE, w |-> s.w]

\* the breaks of the loop, and the commit behind it
Stopped(b, f) ==
  [c |-> f.c, w |-> f.c, up |-> f.up, n |-> b.n, begin |-> FALSE, stop |-> TRUE]

Break(b, interrupts) ==
  IF ~b.begin /\ (b.raced \/ Interrupted(interrupts))
  THEN Stopped(b, Finish(b.c, b.w, b.up, b.n))
  ELSE [c |-> b.c, w |-> b.w, up |-> b.up, n |-> b.n, begin |-> b.begin, stop |-> FALSE]

HistAfter(led, b) ==
  [hist EXCEPT !.led = led,
               !.before = View(wtx, updater),
               !.saved = IF b.stop \/ ShouldCommit(uncommitted + 1) THEN led ELSE @]

\* index_block returned an error and `?` returns it from update
Failed(s) ==
  /\ committed' = Abandon(committed, s.w)
  /\ wtx' = s.w
  /\ updater' = s.up
  /\ uncommitted' = uncommitted
  /\ result' = s.err
  /\ reorged' = (reorged \/ s.err = "reorg")
  /\ cpc' = "done"
  /\ queue' = <<>>
  /\ hist' = hist

\* where the loop goes on: to begin_write, out of the loop, or to the recv
Resumed(b) ==
  /\ committed' = b.c
  /\ wtx' = b.w
  /\ updater' = b.up
  /\ uncommitted' = b.n
  /\ result' = IF b.stop THEN "ok" ELSE "none"
  /\ reorged' = reorged
  /\ cpc' = IF b.begin THEN "begin" ELSE IF b.stop THEN "done" ELSE "recv"
  /\ queue' = IF b.stop THEN <<>> ELSE queue

Applied(b) ==
  /\ Resumed(b)
  /\ hist' = HistAfter(IF updater.index_satoshis
                       THEN LedgerAfter(hist.led, cur, updater.height) ELSE hist.led, b)

Iterate(s) ==
  IF s.err # "none" THEN Failed(s)
  ELSE Applied(Break(Batch(committed, s, uncommitted + 1), INTERRUPTS))

\* begin_write after the commit of a full batch, once no other write
\* transaction is open; then the height check and the interrupt check
Reopen ==
  /\ cpc = "begin"
  /\ Resumed(Break(Rebegin(committed, updater), INTERRUPTS))
  /\ UNCHANGED <<probe, source, index_satoshis, mainnet, height_limit, cur, ppc, pheight,
                 pblock, INTERRUPTS, hist>>

\* one iteration of the loop of update_index after the recv: index_block, the
\* commit of a full batch or the interrupt check, and the last commit on a break
IndexStep ==
  /\ cpc = "index"
  /\ Iterate(index_block(wtx, updater, cur))
  /\ UNCHANGED <<probe, source, index_satoshis, mainnet, height_limit, cur, ppc, pheight,
                 pblock, INTERRUPTS>>

\* the producer's loop up to the send: the height limit, then the fetch
ProducerFetch ==
  /\ ppc = "fetch"
  /\ IF height_limit # NoLimit /\ pheight >= height_limit
     THEN ppc' = "limit" /\ pblock' = pblock
     ELSE IF pheight < Len(source)
     THEN ppc' = "send" /\ pblock' = Fetched(source[pheight + 1], with_transactions)
     ELSE ppc' = "none" /\ pblock' = pblock
  /\ UNCHANGED <<probe, source, index_satoshis, mainnet, height_limit, committed, wtx, updater,
                 uncommitted, cpc, cur, result, pheight, queue, INTERRUPTS, reorged, hist>>

\* get_block_with_retries gives up on a transport failure
ProducerFails ==
  /\ ppc = "fetch"
  /\ height_limit = NoLimit \/ pheight < height_limit
  /\ ppc' = "failed"
  /\ UNCHANGED <<probe, source, index_satoshis, mainnet, height_limit, committed, wtx, updater,
                 uncommitted, cpc, cur, result, pheight, pblock, queue, INTERRUPTS,
                 reorged, hist>>

\* a variant of the send that does not wait for room in the queue
ProducerSendUnbounded ==
  /\ ppc = "send"
  /\ IF Running
     THEN queue' = Append(queue, pblock) /\ pheight' = pheight + 1 /\ ppc' = "fetch"
     ELSE queue' = queue /\ pheight' = pheight /\ ppc' = "disconnected"
  /\ UNCHANGED <<probe, source, index_satoshis, mainnet, height_limit, committed, wtx, updater,
                 uncommitted, cpc, cur, result, pblock, INTERRUPTS, reorged, hist>>

\* a variant of the send that fetches again after the receiver is dropped
ProducerSendRetrying ==
  /\ ppc = "send"
  /\ ~Running \/ Len(queue) < QueueCapacity
  /\ IF Running
     THEN queue' = Append(queue, pblock) /\ pheight' = pheight + 1 /\ ppc' = "fetch"
     ELSE queue' = queue /\ pheight' = pheight /\ ppc' = "fetch"
  /\ UNCHANGED <<probe, source, index_satoshis, mainnet, height_limit, committed, wtx, updater,
                 uncommitted, cpc, cur, result, pblock, INTERRUPTS, reorged, hist>>

\* tx.send(block.into()): blocks while the queue is full, fails once the
\* receiver is dropped
ProducerSend ==
  /\ ppc = "send"
  /\ ~Running \/ Len(queue) < QueueCapacity
  /\ IF Running
     THEN queue' = Append(queue, pblock) /\ pheight' = pheight + 1 /\ ppc' = "fetch"
     ELSE queue' = queue /\ pheight' = pheight /\ ppc' = "disconnected"
  /\ UNCHANGED <<probe, source, index_satoshis, mainnet, height_limit, committed, wtx, updater,
                 uncommitted, cpc, cur, result, pblock, INTERRUPTS, reorged, hist>>

\* a signal handler increments INTERRUPTS
Interrupt ==
  /\ Running
  /\ INTERRUPTS < MaxInterrupts
  /\ INTERRUPTS' = INTERRUPTS + 1
  /\ UNCHANGED <<probe, source, index_satoshis, mainnet, height_limit, committed, wtx, updater,
                 uncommitted, cpc, cur, result, ppc, pheight, pblock, queue, reorged, hist>>

\* the node reorganises: the blocks from ReplacedFrom on are replaced by n -
\* ReplacedFrom blocks of another fork
Reorg ==
  /\ ForkOf(source) < MaxForks
  /\ Len(source) > ReplacedFrom
  /\ \E n \in (ReplacedFrom + 1)..(Len(source) + 1) :
       source' = Fork(SubSeq(source, 1, ReplacedFrom), ForkOf(source) + 1, n)
  /\ hist' = [hist EXCEPT !.changed = TRUE]
  /\ UNCHANGED <<probe, index_satoshis, mainnet, height_limit, committed, wtx, updater,
                 uncommitted, cpc, cur, result, ppc, pheight, pblock, queue, INTERRUPTS,
                 reorged>>

\* no function is run on its own
NoProbe == [pc |-> "off"]

\* a process that has not called update yet, on an empty store
Idle ==
  /\ committed = EmptyStore
  /\ wtx = EmptyStore
  /\ updater = NewUpdater(0, index_satoshis)
  /\ uncommitted = 0
  /\ cpc = "idle"
  /\ cur = NoBlock
  /\ result = "none"
  /\ ppc = "off"
  /\ pheight = 0
  /\ pblock = NoBlock
  /\ queue = <<>>
  /\ INTERRUPTS = 0
  /\ reorged = FALSE
  /\ hist = NoHist

Boot == Idle /\ probe = NoProbe

\* chains of MaxHeight blocks with transactions
Init ==
  /\ source \in Chains(MaxHeight)
  /\ index_satoshis \in BOOLEAN
  /\ mainnet = FALSE
  /\ height_limit \in {NoLimit, MaxHeight - 1}
  /\ Boot

Next ==
  \/ Update
  \/ Recv
  \/ RecvClosed
  \/ IndexStep
  \/ ProducerFetch
  \/ ProducerFails
  \/ ProducerSend
  \/ Interrupt

Spec == Init /\ [][Next]_vars

\* the chain of the blocks 0..IndexedTip, which the node may reorganise
InitReorg ==
  /\ source = PlainChain(IndexedTip + 1)
  /\ index_satoshis \in BOOLEAN
  /\ mainnet \in BOOLEAN
  /\ height_limit \in {NoLimit, IndexedTip + 1}
  /\ Boot

NextReorg ==
  \/ Update
  \/ Recv
  \/ RecvClosed
  \/ IndexStep
  \/ ProducerFetch
  \/ ProducerSend
  \/ Reorg

SpecReorg == InitReorg /\ [][NextReorg]_vars

\* the store after a run that indexed the first h0 blocks of a chain of headers
HeaderStore(chain, h0) ==
  [EmptyStore EXCEPT !.h2h = [h \in 0..(h0 - 1) |-> chain[h + 1].hash],
                     !.starts = IF h0 > 0 THEN {0} ELSE {},
                     !.stats.Commits = IF h0 > 0 THEN 1 ELSE 0]

\* a run on mainnet without satoshi index that began at height h0 and has
\* applied n blocks of headers, none committed yet, the queue being empty
MidRun(h0, n) ==
  /\ index_satoshis = FALSE
  /\ mainnet = TRUE
  /\ height_limit = NoLimit
  /\ committed = HeaderStore(source, h0)
  /\ wtx = [HeaderStore(source, h0) EXCEPT
              !.h2h = [h \in 0..(h0 + n - 1) |-> source[h + 1].hash],
              !.starts = @ \cup {h0}]
  /\ updater = NewUpdater(h0 + n, FALSE)
  /\ uncommitted = n
  /\ cpc = "recv"
  /\ cur = Fetched(source[h0 + n], FALSE)
  /\ result = "none"
  /\ ppc = "fetch"
  /\ pheight = h0 + n
  /\ pblock = cur
  /\ queue = <<>>
  /\ INTERRUPTS = 0
  /\ reorged = FALSE
  /\ hist = [NoHist EXCEPT !.start = h0]
  /\ probe = NoProbe

\* long runs, BatchTail blocks before their first full batch
InitBatch ==
  \E h0 \in 0..MaxStart :
    /\ source = PlainChain(h0 + CommitInterval + BatchAfter)
    /\ MidRun(h0, CommitInterval - BatchTail)

NextBatch ==
  \/ Recv
  \/ RecvClosed
  \/ IndexStep
  \/ Reopen
  \/ ProducerFetch
  \/ ProducerFails
  \/ ProducerSend
  \/ Interrupt

SpecBatch == InitBatch /\ [][NextBatch]_vars

\* a chain longer than the queue, so that the producer can fill the queue
InitQueue ==
  /\ source = PlainChain(QueueCapacity + QueueExtra)
  /\ index_satoshis \in BOOLEAN
  /\ mainnet = TRUE
  /\ height_limit = NoLimit
  /\ Boot

NextQueue ==
  \/ Update
  \/ Recv
  \/ RecvClosed
  \/ IndexStep
  \/ ProducerFetch
  \/ ProducerSend

SpecQueue == InitQueue /\ [][NextQueue]_vars

\* the loop of update_index of another updater over the next n blocks
RECURSIVE ApplyBlocks(_, _)
ApplyBlocks(s, n) ==
  IF n = 0 \/ s.err # "none" THEN s
  ELSE ApplyBlocks(index_block(s.w, s.up, Fetched(source[s.up.height + 1], with_transactions)),
                   n - 1)

\* what update of another updater does from the stored height on
OtherRun(height, n) ==
  ApplyBlocks([w |-> BeginBatch(committed, height),
               up |-> NewUpdater(height, index_satoshis),
               err |-> "none"], n)

\* the write transaction of another updater's commit
OtherCommitted(s) ==
  /\ s.err = "none"
  /\ committed' = CommitTables(s.w, s.up)
  /\ wtx' = CommitTables(s.w, s.up)

\* a second updater on the same store: while this updater holds no write
\* transaction, the other one begins its own, applies blocks from the stored
\* height on and commits
OtherUpdate ==
  /\ cpc = "begin"
  /\ \E n \in 1..(Len(source) - StoredHeight(committed.h2h)) :
       OtherCommitted(OtherRun(StoredHeight(committed.h2h), n))
  /\ UNCHANGED <<probe, source, index_satoshis, mainnet, height_limit, updater, uncommitted,
                 cpc, cur, result, ppc, pheight, pblock, queue, INTERRUPTS, reorged, hist>>

NextRace ==
  \/ Recv
  \/ RecvClosed
  \/ IndexStep
  \/ Reopen
  \/ ProducerFetch
  \/ ProducerFails
  \/ ProducerSend
  \/ Interrupt
  \/ OtherUpdate

\* long runs with a second updater on the store
SpecRace == InitBatch /\ [][NextRace]_vars

\* the first call of update of a process
Start == cpc = "idle" /\ Update

\* one run on a short chain of any kind, or on a chain longer than the queue
InitClose ==
  /\ \/ /\ source \in Chains(MaxHeight)
        /\ mainnet = FALSE
        /\ height_limit \in {NoLimit, MaxHeight - 1}
     \/ /\ source = PlainChain(QueueCapacity + QueueExtra)
        /\ mainnet = TRUE
        /\ height_limit = NoLimit
  /\ index_satoshis \in BOOLEAN
  /\ Boot

NextClose ==
  \/ Start
  \/ Recv
  \/ RecvClosed
  \/ IndexStep
  \/ ProducerFetch
  \/ ProducerFails
  \/ ProducerSend
  \/ Interrupt

\* one run to its end: both threads keep being scheduled, a request to the
\* node returns, and so does index_block (IndexStep is enabled exactly when
\* cpc = "index", and leaves it)
SpecClose ==
  /\ InitClose
  /\ [][NextClose]_vars
  /\ WF_vars(Start)
  /\ WF_vars(Recv)
  /\ WF_vars(RecvClosed)
  /\ []<>(cpc # "index")
  /\ WF_vars(ProducerFetch \/ ProducerFails)
  /\ WF_vars(ProducerSend)

\* commit called once more right after the commit that ended a run, with no
\* block indexed in between
CommitAgain ==
  /\ cpc = "done"
  /\ result = "ok"
  /\ uncommitted > 0
  /\ probe.pc = "off"
  /\ committed' = CommitTables(committed, updater)
  /\ wtx' = CommitTables(committed, updater)
  /\ updater' = CommitUpdater(updater)
  /\ probe' = [pc |-> "again"]
  /\ UNCHANGED <<source, index_satoshis, mainnet, height_limit, uncommitted, cpc, cur,
                 result, ppc, pheight, pblock, queue, INTERRUPTS, reorged, hist>>

NextCommit ==
  \/ Update
  \/ Recv
  \/ RecvClosed
  \/ IndexStep
  \/ ProducerFetch
  \/ ProducerFails
  \/ ProducerSend
  \/ Interrupt
  \/ CommitAgain

\* the runs of Spec, with one commit repeated
SpecCommit == Init /\ [][NextCommit]_vars

----------------------------------------------------------------------------
(* The range record on its own: a range is encoded as in                   *)
(* index_transaction_sats and decoded as in index_block.  Numbers are u64  *)
(* words of bits, so that sizes up to 2^51 are covered.                    *)

\* the variables of the pipeline, which a function run on its own leaves alone
pipeline == <<source, index_satoshis, mainnet, height_limit, committed, wtx, updater,
              uncommitted, cpc, cur, result, ppc, pheight, pblock, queue, INTERRUPTS,
              reorged, hist>>

\* no pipeline runs
NoPipeline ==
  /\ source = <<>>
  /\ index_satoshis = TRUE
  /\ mainnet = FALSE
  /\ height_limit = NoLimit
  /\ Idle

\* the bits a start and a size are made of
StartBits == {0, 7, 8, 50}

SizeBits == {0, 12, 36, 37, 50}

\* the u64 whose set bits are S
Word(S) == [i \in 1..64 |-> IF (i - 1) \in S THEN 1 ELSE 0]

\* a field of a record as a u64
Extend64(bits) == [i \in 1..64 |-> IF i <= Len(bits) THEN bits[i] ELSE 0]

RECURSIVE CarryInto(_, _, _)
CarryInto(x, y, i) ==
  IF i = 1 THEN 0
  ELSE IF x[i - 1] + y[i - 1] + CarryInto(x, y, i - 1) >= 2 THEN 1 ELSE 0

\* the sum of two u64
AddBits(x, y) == [i \in 1..64 |-> (x[i] + y[i] + CarryInto(x, y, i)) % 2]

\* n < 2^w
Below(n, w) == \A i \in (w + 1)..64 : n[i] = 0

InitCodec ==
  /\ NoPipeline
  /\ \E A \in SUBSET StartBits, D \in SUBSET SizeBits :
       probe = [pc |-> "range", start |-> Word(A), size |-> Word(D),
                bytes |-> <<>>, decoded |-> <<>>]

\* let n = u128::from(base) | u128::from(delta) << 51; n.to_le_bytes()[0..11]
Encode ==
  /\ probe.pc = "range"
  /\ probe' = [probe EXCEPT !.pc = "encoded",
                            !.bytes = LeBytes11(PackBits(probe.start, probe.size))]
  /\ UNCHANGED pipeline

\* Index::decode_sat_range(chunk)
Decode ==
  /\ probe.pc = "encoded"
  /\ probe' = [probe EXCEPT !.pc = "decoded",
                 !.decoded = <<Extend64(DecodeFields(probe.bytes).base),
                               AddBits(Extend64(DecodeFields(probe.bytes).base),
                                       Extend64(DecodeFields(probe.bytes).delta))>>]
  /\ UNCHANGED pipeline

NextCodec ==
  \/ Encode
  \/ Decode

SpecCodec == InitCodec /\ [][NextCodec]_vars

----------------------------------------------------------------------------
(* index_transaction_sats on its own: one transaction whose outputs are    *)
(* assigned from a given deque of input ranges.                            *)

MaxProbeLen == 3

\* the ranges an input deque is made of: non-empty and disjoint
ProbeRanges == {<<100, 200>>, <<0, 2>>, <<5, 6>>}

\* the values of the outputs
ProbeValues == {0, 1, 2, 3, 30, 70}

\* the deques of up to n different ranges
Deques(n) ==
  UNION {{d \in [1..k -> ProbeRanges] : \A i, j \in 1..k : i # j => d[i] # d[j]} : k \in 0..n}

\* the transaction whose outputs are assigned
ProbeTx(outputs) == Spend(1, 1, <<>>, outputs, FALSE)

InitAssign ==
  /\ NoPipeline
  /\ \E dq \in Deques(MaxProbeLen), outputs \in UNION {[1..k -> ProbeValues] : k \in 0..MaxProbeLen} :
       probe = [pc |-> "inputs", dq |-> dq, outputs |-> outputs]

\* index_transaction_sats(tx, txid, ..., input_sat_ranges, ...)
AssignProbe ==
  /\ probe.pc = "inputs"
  /\ probe' = [pc |-> "assigned", dq |-> probe.dq, outputs |-> probe.outputs,
               s |-> index_transaction_sats(
                       [w |-> EmptyStore, up |-> NewUpdater(0, TRUE), err |-> "none",
                        dq |-> probe.dq, cb |-> <<>>, written |-> 0, oib |-> 0],
                       ProbeTx(probe.outputs))]
  /\ UNCHANGED pipeline

NextAssign == AssignProbe

SpecAssign == InitAssign /\ [][NextAssign]_vars

----------------------------------------------------------------------------
(* index_block on its own: the block at height 1, with up to two           *)
(* transactions that spend the outputs of block 0 and leave fees.          *)

\* the values of the outputs of the spending transactions
SpendValues == {0, 5, 19, 29, 30, 50}

\* the values of the coinbase output
CoinbaseValues == {50, 51, 52, 95, 100}

\* the store and the updater after block 0
AfterGenesis(kind) == index_block(EmptyStore, NewUpdater(0, TRUE), Extend(<<>>, kind)[1])

\* the orders in which the live outputs of a chain can be spent
SpendOrders(chain) ==
  LET live == Unspent(chain)
  IN {[i \in 1..Len(live) |-> live[pi[i]][1]] :
        pi \in {f \in [1..Len(live) -> 1..Len(live)] : \A i, j \in 1..Len(live) : i # j => f[i] # f[j]}}

\* block 1: the coinbase, a transaction on the first k outpoints, and one on the rest
FeeBlock(chain, ins, k, x1, x2, c) ==
  MkBlock(chain, 0,
          <<Coinbase(1, 0, <<c>>), Spend(1, 1, SubSeq(ins, 1, k), <<x1>>, FALSE)>>
          \o IF k < Len(ins) THEN <<Spend(1, 2, SubSeq(ins, k + 1, Len(ins)), <<x2>>, FALSE)>>
             ELSE <<>>)

InitBlock ==
  /\ NoPipeline
  /\ \E kind \in {"one", "two"} :
       \E ins \in SpendOrders(Extend(<<>>, kind)), x1 \in SpendValues, x2 \in SpendValues,
          c \in CoinbaseValues :
         \E k \in 1..Len(ins) :
           probe = [pc |-> "block", before |-> AfterGenesis(kind),
                    block |-> FeeBlock(Extend(<<>>, kind), ins, k, x1, IF k < Len(ins) THEN x2 ELSE 0, c)]

\* index_block(index, wtx, block)
IndexProbe ==
  /\ probe.pc = "block"
  /\ probe' = [pc |-> "indexed", before |-> probe.before, block |-> probe.block,
               s |-> index_block(probe.before.w, probe.before.up, probe.block)]
  /\ UNCHANGED pipeline

NextBlock == IndexProbe

SpecBlock == InitBlock /\ [][NextBlock]_vars

----------------------------------------------------------------------------
(* The transactions of one block one by one, as index_block runs them in   *)
(* either mode: a first transaction that creates outputs, then             *)
(* transactions that spend live outputs, with or without an inscription.   *)

MaxTxs == 4

\* the outputs of the first transaction
FirstOutputs == {<<10>>, <<6, 4>>}

\* the inputs a transaction can spend: one live outpoint, or two
SpendInputs(live) ==
  {<<a[1]>> : a \in live} \cup {<<x[1][1], x[2][1]>> : x \in {y \in live \X live : y[1] # y[2]}}

\* the value of the spent outputs
SpentValue(live, ins) == SumSeq([i \in 1..Len(ins) |-> (CHOOSE a \in live : a[1] = ins[i])[2]])

\* the live outputs after a transaction
LiveAfter(live, tx) ==
  {a \in live : \A i \in 1..Len(tx.input) : tx.input[i] # a[1]}
    \cup {Outputs(tx)[v] : v \in 1..Len(tx.output)}

\* one transaction of the block in the mode of the run
IndexOne(s, tx, sats, ranges) ==
  IF sats THEN IndexTransaction(IF ranges = <<>> THEN TakeInputs([s EXCEPT !.dq = <<>>], tx.input)
                                ELSE [s EXCEPT !.dq = ranges], tx)
  ELSE [s EXCEPT !.w = index_transaction_inscriptions(@, tx)]

InitTxs ==
  /\ NoPipeline
  /\ \E sats \in BOOLEAN :
       probe = [pc |-> "txs", sats |-> sats, n |-> 0, live |-> {},
                tx |-> Coinbase(0, 0, <<>>), before |-> EmptyStore,
                s |-> [w |-> EmptyStore, up |-> NewUpdater(0, sats), err |-> "none",
                       dq |-> <<>>, cb |-> <<>>, written |-> 0, oib |-> 0]]

Indexed(tx, ranges) ==
  probe' = [probe EXCEPT !.n = @ + 1, !.tx = tx, !.before = probe.s.w,
                         !.live = LiveAfter(@, tx),
                         !.s = IndexOne(@, tx, probe.sats, ranges)]

\* the transaction that creates the first outputs, from a range of new sats
IndexFirst ==
  /\ probe.pc = "txs"
  /\ probe.n = 0
  /\ \E outs \in FirstOutputs : Indexed(Coinbase(0, 0, outs), <<<<0, SumSeq(outs)>>>>)
  /\ UNCHANGED pipeline

\* a transaction that spends live outputs into one output
IndexSpend ==
  /\ probe.pc = "txs"
  /\ probe.n \in 1..(MaxTxs - 1)
  /\ probe.s.err = "none"
  /\ \E ins \in SpendInputs(probe.live), insc \in BOOLEAN :
       Indexed(Spend(0, probe.n, ins, <<SpentValue(probe.live, ins)>>, insc), <<>>)
  /\ UNCHANGED pipeline

NextTxs ==
  \/ IndexFirst
  \/ IndexSpend

SpecTxs == InitTxs /\ [][NextTxs]_vars

----------------------------------------------------------------------------
(* get_block_with_retries on its own: one call, for a height of a node     *)
(* whose requests can fail any number of times.                            *)

\* the longest sleep, in seconds
MaxSleep == 120

\* the blocks of the node
NodeBlocks == 2

\* a variant that gives up one failure earlier
GivesUpEarly(seconds) == 2 * seconds > MaxSleep

\* if seconds > 120
GivesUp(seconds) == seconds > MaxSleep

\* 1 << errors
Seconds(errors) == 2 ^ errors

\* what the node answers when the request goes through: Ok(Some(block)) or Ok(None)
Answer(height, withtx) ==
  IF height < Len(source) THEN [kind |-> "block", block |-> Fetched(source[height + 1], withtx)]
  ELSE [kind |-> "absent", block |-> NoBlock]

InitRetry ==
  /\ source = PlainChain(NodeBlocks)
  /\ index_satoshis \in BOOLEAN
  /\ mainnet = TRUE
  /\ height_limit = NoLimit
  /\ Idle
  /\ \E test \in BOOLEAN, height \in 0..MaxHeight :
       probe = [pc |-> "call", test |-> test, height |-> height, errors |-> 0, requests |-> 0,
                slept |-> <<>>, last |-> "none", returned |-> [kind |-> "none", block |-> NoBlock]]

\* Ok(result) => return Ok(result)
RequestAnswered ==
  /\ probe.pc = "call"
  /\ probe' = [probe EXCEPT !.pc = "returned", !.requests = @ + 1, !.last = "ok",
                            !.returned = Answer(probe.height, with_transactions)]
  /\ UNCHANGED pipeline

\* the three ways on after Err(err)
Retried(errors) ==
  IF probe.test
  THEN [probe EXCEPT !.pc = "returned", !.returned = [kind |-> "error", block |-> NoBlock]]
  ELSE IF GivesUp(Seconds(errors))
  THEN [probe EXCEPT !.pc = "returned", !.errors = errors,
                     !.returned = [kind |-> "error", block |-> NoBlock]]
  ELSE [probe EXCEPT !.pc = "sleep", !.errors = errors]

\* Err(err): a request failed
RequestFailed ==
  /\ probe.pc = "call"
  /\ probe' = [Retried(probe.errors + 1) EXCEPT !.requests = @ + 1, !.last = "failed"]
  /\ UNCHANGED pipeline

\* thread::sleep(Duration::from_secs(seconds))
Sleep ==
  /\ probe.pc = "sleep"
  /\ probe' = [probe EXCEPT !.pc = "call", !.slept = Append(@, Seconds(probe.errors))]
  /\ UNCHANGED pipeline

NextRetry ==
  \/ RequestAnswered
  \/ RequestFailed
  \/ Sleep

SpecRetry == InitRetry /\ [][NextRetry]_vars

----------------------------------------------------------------------------
(* The ledger of outpoints.                                                *)

\* the run has returned no error: every block it took was applied whole
Successful == result \in {"none", "ok"}

\* C1: between the blocks of a successful run with satoshi indexing on, every
\* live outpoint has a range list in the merged view whose summed range sizes
\* equal the value of the output, and every spent outpoint has an entry
\* neither in the cache nor in the table.
LiveOutpointsHoldTheirValue ==
  (updater.index_satoshis /\ Successful) =>
    /\ \A o \in DOMAIN hist.led.utxo :
         /\ Has(View(wtx, updater), o)
         /\ TotalSize(DecodeList(View(wtx, updater)[o])) = hist.led.utxo[o]
    /\ \A o \in hist.led.spent : ~Has(updater.cache, o) /\ ~Has(wtx.o2r, o)

\* a run has spent outpoints, and a live outpoint holds several ranges
SpentAndMergedOutpoints ==
  /\ updater.index_satoshis
  /\ Successful
  /\ hist.led.spent # {}
  /\ \E o \in DOMAIN hist.led.utxo :
       /\ Has(View(wtx, updater), o)
       /\ Len(DecodeList(View(wtx, updater)[o])) > 1

\* C2: for every inscription id of INSCRIPTION_ID_TO_SATPOINT the satpoint it
\* maps to maps back to it in SATPOINT_TO_INSCRIPTION_ID, and no other
\* satpoint row maps to it.
InscriptionTablesInverse ==
  Successful =>
    \A id \in DOMAIN wtx.i2s :
      /\ Has(wtx.s2i, wtx.i2s[id])
      /\ wtx.s2i[wtx.i2s[id]] = id
      /\ \A sp \in DOMAIN wtx.s2i : wtx.s2i[sp] = id => sp = wtx.i2s[id]

\* C3: at every block boundary the merged view equals the map of the ledger
\* without cache; the table of the open transaction gains no row before the
\* commit, so an outpoint created and spent in one batch never reaches it;
\* the committed table equals the ledger as of the last commit, and after the
\* commit that ends a run the cache is empty and the table alone is the map.
CacheRefinesLedger ==
  (updater.index_satoshis /\ Successful) =>
    /\ View(wtx, updater) = hist.led.ref
    /\ DOMAIN wtx.o2r \subseteq DOMAIN committed.o2r
    /\ \A o \in DOMAIN wtx.o2r : wtx.o2r[o] = committed.o2r[o]
    /\ committed.o2r = hist.saved.ref
    /\ cpc = "done" => (updater.cache = EmptyTable /\ committed.o2r = hist.led.ref)

\* an outpoint made and spent in the batch that was just committed, next to
\* outpoints of an earlier batch that the batch spent out of the table
CreatedAndSpentInOneBatch ==
  /\ updater.index_satoshis
  /\ cpc = "done"
  /\ result = "ok"
  /\ hist.start > 0
  /\ \E o \in hist.led.spent : o[1][1] >= hist.start /\ ~Has(committed.o2r, o)
  /\ \E o \in hist.led.spent : o[1][1] < hist.start
  /\ committed.o2r # EmptyTable

----------------------------------------------------------------------------
(* Errors of index_block, and the reorganised source.                      *)

\* C4: when index_block fails in the middle of a batch the open write
\* transaction is not committed: the committed store stays what it was at the
\* last commit, and update returns the error.
FailedBlockIsNotCommitted ==
  [][(cpc = "index" /\ cpc' # "index" /\ index_block(wtx, updater, cur).err # "none") =>
       /\ committed' = committed
       /\ result' = index_block(wtx, updater, cur).err
       /\ cpc' = "done"]_vars

\* a block failed after earlier blocks of the batch had removed rows of the
\* table and filled the cache inside the open transaction
FailedWithUncommittedBlocks ==
  /\ result \in {"insufficient", "missing"}
  /\ uncommitted > 0
  /\ updater.cache # EmptyTable
  /\ \E o \in DOMAIN committed.o2r : ~Has(wtx.o2r, o)
  /\ StoredHeight(committed.h2h) = hist.start

\* the block in hand does not build on the row stored below the local height
PrevMismatch ==
  /\ updater.height > 0
  /\ Has(wtx.h2h, updater.height - 1)
  /\ wtx.h2h[updater.height - 1] # cur.prev

\* C5: index_block called with a block whose prev_blockhash differs from the
\* stored hash of the height below returns the reorg error, sets the reorged
\* flag and mutates nothing; when the hashes are equal, or the height is 0,
\* the flag is not set.
ReorgGuardMutatesNothing ==
  [][(cpc = "index" /\ cpc' # "index") =>
       IF PrevMismatch
       THEN /\ result' = "reorg"
            /\ reorged'
            /\ wtx' = wtx
            /\ updater' = updater
            /\ committed' = committed
       ELSE reorged' = reorged]_vars

\* the guard stopped a run that had applied blocks, uncommitted yet
ReorgDetectedMidBatch ==
  /\ result = "reorg"
  /\ reorged
  /\ PrevMismatch
  /\ uncommitted > 0
  /\ updater.height > hist.start

\* a run that began with the store indexed through IndexedTip, against a
\* source replaced from ReplacedFrom on and not changed since the run began
RerunOnReplaced ==
  /\ cpc # "idle"
  /\ hist.start = IndexedTip + 1
  /\ ~hist.changed
  /\ Has(committed.h2h, ReplacedFrom)
  /\ committed.h2h[ReplacedFrom] # source[ReplacedFrom + 1].hash

----------------------------------------------------------------------------
(* Interrupts and commits.                                                 *)

\* C7 as stated: once INTERRUPTS is greater than 0 the consumer starts no
\* further block.
InterruptStartsNoBlock == hist.late = 0

\* every block the run applied is committed
AllCommitted ==
  /\ wtx = committed
  /\ StoredHeight(committed.h2h) = updater.height
  /\ updater.index_satoshis => (committed.o2r = hist.led.ref /\ updater.cache = EmptyTable)

\* C7: once INTERRUPTS is greater than 0 the consumer takes at most one
\* further block, the one it receives when the interrupt arrives while it
\* waits for the queue; the block in hand is finished, and if it is indexed
\* without error the run ends there with every applied block committed and
\* returns success.
InterruptStopsAfterBlockInHand ==
  /\ [](/\ hist.late <= 1
        /\ (INTERRUPTS > 0 /\ cpc = "recv") => hist.late = 0
        /\ (INTERRUPTS > 0 /\ cpc = "done" /\ Successful) => (result = "ok" /\ AllCommitted))
  /\ [][(INTERRUPTS > 0 /\ cpc = "index") => cpc' \in {"index", "done"}]_vars

\* an interrupted run ended with blocks applied in this run, all committed
InterruptedRunCommitted ==
  /\ INTERRUPTS > 0
  /\ cpc = "done"
  /\ result = "ok"
  /\ updater.height > hist.start
  /\ updater.index_satoshis
  /\ committed.o2r # EmptyTable

\* C8 as stated: every commit happens when the local height is a multiple of
\* CommitInterval, or at clean shutdown.
CommitsAtMultiplesOfInterval ==
  [][committed' # committed =>
       \/ updater'.height % CommitInterval = 0
       \/ cpc' = "done" /\ result' = "ok"]_vars

\* C8: every commit happens when the run has applied a multiple of
\* CommitInterval blocks since the height it started from, or at clean
\* shutdown; and a run that has applied such a number of blocks commits.
CommitsEveryIntervalOfRun ==
  [][/\ committed' # committed =>
          \/ /\ updater'.height > hist.start
             /\ (updater'.height - hist.start) % CommitInterval = 0
          \/ cpc' = "done" /\ result' = "ok"
     /\ (/\ updater'.height = updater.height + 1
         /\ (updater'.height - hist.start) % CommitInterval = 0)
          => /\ committed' # committed
             /\ StoredHeight(committed'.h2h) = updater'.height]_vars

\* a run that began above height 0 committed its first full batch and goes on
FullBatchCommitted ==
  /\ hist.start > 0
  /\ cpc = "recv"
  /\ uncommitted = 0
  /\ StoredHeight(committed.h2h) = hist.start + CommitInterval

----------------------------------------------------------------------------
(* The order of the blocks, and the sats of a block.                       *)

\* the rows lo..(hi - 1) of HEIGHT_TO_BLOCK_HASH hold the source's hashes
RowsMatchSource(lo, hi) ==
  \A h \in lo..(hi - 1) : h < Len(source) /\ wtx.h2h[h] = source[h + 1].hash

\* HEIGHT_TO_BLOCK_HASH has one row for each height below the local height
RowsBelowHeight == DOMAIN wtx.h2h = 0..(updater.height - 1)

\* the source has not changed since the run began, and no block has failed
SteadyRun == cpc # "idle" /\ ~hist.changed /\ Successful

\* C9 as stated: against a source that does not change during the run, every
\* row of HEIGHT_TO_BLOCK_HASH below the local height is the source's hash at
\* its height.
RowsEqualSource == SteadyRun => (RowsBelowHeight /\ RowsMatchSource(0, updater.height))

\* the block in hand, and the blocks queued behind it, are the source's blocks
\* at the local height and the heights that follow, in the producer's order
AscendingHeights ==
  LET next == IF cpc = "index" THEN updater.height + 1 ELSE updater.height
  IN /\ cpc = "index" => cur = Fetched(source[updater.height + 1], with_transactions)
     /\ \A i \in 1..Len(queue) :
          queue[i] = Fetched(source[next + i], with_transactions)
     /\ pheight = next + Len(queue)

\* C9: against a source that does not change during the run the consumer
\* applies the source's blocks at consecutive ascending heights in the
\* producer's order; HEIGHT_TO_BLOCK_HASH has exactly one row for each height
\* below the local height, so the guard's lookup finds its row; the rows the
\* run wrote are the source's hashes, and so are all rows once the run has
\* applied a block or when the source was never replaced; rows of an earlier
\* run are kept as they were stored.
RowsFollowSource ==
  SteadyRun =>
    /\ RowsBelowHeight
    /\ RowsMatchSource(hist.start, updater.height)
    /\ (updater.height > hist.start \/ ForkOf(source) = 0) => RowsMatchSource(0, updater.height)
    /\ \A h \in 0..(hist.start - 1) : wtx.h2h[h] = committed.h2h[h]
    /\ Running => AscendingHeights
    /\ cpc = "index" => ReorgGuard(wtx.h2h, updater.height, cur) # "panic"

\* a run on a replaced source has applied the replaced blocks and holds the
\* next block, with another one queued behind it
ReplacedBlocksApplied ==
  /\ SteadyRun
  /\ ForkOf(source) > 0
  /\ updater.height > ReplacedFrom
  /\ cpc = "index"
  /\ queue # <<>>

\* the sats of a list of ranges
SatsOf(ranges) == UNION {ranges[i][1]..(ranges[i][2] - 1) : i \in 1..Len(ranges)}

\* the block in hand has been applied
BlockApplied ==
  /\ updater.index_satoshis
  /\ Successful
  /\ cpc \in {"recv", "done"}
  /\ updater.height > hist.start
  /\ cur.txdata # <<>>

\* the sats that entered the block applied last: its subsidy, and the ranges
\* of the outpoints it spent that existed before it
SatsIn ==
  SatsOf(SubsidyRanges(updater.height - 1)) \cup
  UNION {SatsOf(DecodeList(hist.before[o])) : o \in BlockInputs(cur) \cap DOMAIN hist.before}

\* the outpoints the block applied last created and left unspent
CreatedLive == {o \in DOMAIN View(wtx, updater) : o[1][1] = updater.height - 1}

\* C10: after a block is applied every sat of its subsidy and of the ranges
\* of the outpoints it spent belongs to exactly one range list of an outpoint
\* the block created.
SatsAccountedFor ==
  BlockApplied =>
    \A sat \in SatsIn :
      \E o \in CreatedLive :
        /\ sat \in SatsOf(DecodeList(View(wtx, updater)[o]))
        /\ \A p \in CreatedLive \ {o} : sat \notin SatsOf(DecodeList(View(wtx, updater)[p]))

----------------------------------------------------------------------------
(* The queue between the producer and the consumer.                        *)

\* the blocks the consumer has received in this run
Received == (updater.height - hist.start) + (IF cpc = "index" THEN 1 ELSE 0)

\* the blocks the producer has fetched in this run
FetchedBlocks == (pheight - hist.start) + (IF ppc = "send" THEN 1 ELSE 0)

\* C11: the queue never holds more than QueueCapacity blocks; the producer
\* waits on its send while the queue is full, so it has fetched at most
\* QueueCapacity + 1 blocks beyond those the consumer has received; and the
\* blocks in the queue are in the order they were sent, the consumer receiving
\* the oldest.
QueueBounded ==
  /\ Len(queue) <= QueueCapacity
  /\ Running =>
       /\ FetchedBlocks - Received <= QueueCapacity + 1
       /\ pheight - hist.start = Received + Len(queue)
       /\ AscendingHeights
       /\ (ppc = "send" /\ Len(queue) = QueueCapacity) => ~ENABLED ProducerSend

\* the queue is full and the producer holds one more block
ProducerWaitsOnFullQueue ==
  /\ Running
  /\ ppc = "send"
  /\ Len(queue) = QueueCapacity
  /\ FetchedBlocks - Received = QueueCapacity + 1

----------------------------------------------------------------------------
(* The range record.                                                       *)

\* the range (a, b) of the probe has 0 <= a < b < 2^51
RangeBelow51 ==
  /\ probe.pc = "decoded"
  /\ Below(probe.start, 51)
  /\ probe.size # Word({})
  /\ Below(AddBits(probe.start, probe.size), 51)

\* the record decodes to the range it was made from
RoundTrips == probe.decoded = <<probe.start, AddBits(probe.start, probe.size)>>

\* C12 as stated: every range (a, b) with 0 <= a < b < 2^51 and
\* b - a < 2^51 is decoded from its 11-byte record again.
RoundTripBelow51 == (RangeBelow51 /\ Below(probe.size, 51)) => RoundTrips

\* C12: every range (a, b) with 0 <= a < b < 2^51 and b - a < 2^37 is
\* decoded from its 11-byte record again; the 11 bytes hold 37 bits above the
\* 51 bits of the start.
RoundTripBelow37 == (RangeBelow51 /\ Below(probe.size, 37)) => RoundTrips

\* a range whose start and size both need their upper bits was decoded
WideRangeDecoded ==
  /\ RangeBelow51
  /\ Below(probe.size, 37)
  /\ probe.start[51] = 1
  /\ probe.size[37] = 1
  /\ probe.size[1] = 1
  /\ RoundTrips

----------------------------------------------------------------------------
(* commit, repeated.                                                       *)

\* C13: a commit right after another commit, with no block indexed in
\* between, changes nothing in the store but the Commits statistic, which
\* grows by 1; the updater is left as the first commit left it.
SecondCommitOnlyCounts ==
  [][(probe.pc = "off" /\ probe'.pc = "again") =>
       /\ committed' = [committed EXCEPT !.stats.Commits = @ + 1]
       /\ committed'.o2r = committed.o2r
       /\ committed'.stats.OutputsTraversed = committed.stats.OutputsTraversed
       /\ committed'.stats.SatRanges = committed.stats.SatRanges
       /\ updater' = updater]_vars

\* a store with ranges and counted outputs was committed twice in a row
CommittedTwice ==
  /\ probe.pc = "again"
  /\ committed.o2r # EmptyTable
  /\ committed.stats.OutputsTraversed > 0
  /\ committed.stats.SatRanges > 0
  /\ committed.stats.Commits > 1

----------------------------------------------------------------------------
(* Two updaters on one store.                                              *)

\* the updater holds a write transaction
InTransaction == cpc \in {"recv", "index"}

----------------------------------------------------------------------------
(* The order of range assignment.                                          *)

\* the sats of a list of ranges, in order
RECURSIVE SatSeq(_)
SatSeq(ranges) ==
  IF ranges = <<>> THEN <<>>
  ELSE [i \in 1..RangeSize(Head(ranges)) |-> Head(ranges)[1] + i - 1] \o SatSeq(Tail(ranges))

\* the ranges of the outputs vout.. of the transaction, in vout order
RECURSIVE OutputRanges(_, _, _)
OutputRanges(cache, tx, vout) ==
  IF vout >= Len(tx.output) THEN <<>>
  ELSE DecodeList(cache[OutPoint(tx.txid, vout)]) \o OutputRanges(cache, tx, vout + 1)

\* the offsets in the deque at which an output ends
Boundaries(outputs) == {SumSeq(SubSeq(outputs, 1, k)) : k \in 1..Len(outputs)}

\* the boundaries that fall strictly inside a range of the deque
Inside(dq, outputs) ==
  {p \in Boundaries(outputs) :
     \E i \in 1..Len(dq) :
       /\ TotalSize(SubSeq(dq, 1, i - 1)) < p
       /\ p < TotalSize(SubSeq(dq, 1, i))}

\* the outputs are worth no more than the deque holds
Covered == probe.pc = "assigned" /\ SumSeq(probe.outputs) <= TotalSize(probe.dq)

\* C15: for any input deque and any outputs worth no more than the deque
\* holds, the sats of the outputs' range lists in vout order followed by the
\* sats of the leftover deque are the sats of the input deque in order; the
\* ranges are split exactly at the output boundaries strictly inside a range,
\* and the number of ranges grows by one per split.
AssignmentKeepsOrder ==
  Covered =>
    /\ probe.s.err = "none"
    /\ \A v \in 0..(Len(probe.outputs) - 1) :
         /\ Has(probe.s.up.cache, OutPoint(ProbeTx(probe.outputs).txid, v))
         /\ TotalSize(DecodeList(probe.s.up.cache[OutPoint(ProbeTx(probe.outputs).txid, v)]))
              = probe.outputs[v + 1]
    /\ SatSeq(OutputRanges(probe.s.up.cache, ProbeTx(probe.outputs), 0) \o probe.s.dq)
         = SatSeq(probe.dq)
    /\ probe.s.up.sat_ranges_since_flush = Cardinality(Inside(probe.dq, probe.outputs))
    /\ Len(OutputRanges(probe.s.up.cache, ProbeTx(probe.outputs), 0)) + Len(probe.s.dq)
         = Len(probe.dq) + probe.s.up.sat_ranges_since_flush

\* the range (100, 200) assigned to outputs of 30 and 70
SplitInTwo ==
  /\ Covered
  /\ probe.dq = <<<<100, 200>>>>
  /\ probe.outputs = <<30, 70>>
  /\ DecodeList(probe.s.up.cache[OutPoint(ProbeTx(probe.outputs).txid, 0)]) = <<<<100, 130>>>>
  /\ DecodeList(probe.s.up.cache[OutPoint(ProbeTx(probe.outputs).txid, 1)]) = <<<<130, 200>>>>
  /\ probe.s.dq = <<>>

----------------------------------------------------------------------------
(* The deque of the coinbase transaction.                                  *)

\* the sats of the inputs of a transaction, in input order, before the block
RECURSIVE InputSats(_, _)
InputSats(view, inputs) ==
  IF inputs = <<>> THEN <<>>
  ELSE SatSeq(DecodeList(view[Head(inputs)])) \o InputSats(view, Tail(inputs))

\* the sats a transaction leaves as its fee
FeeSats(view, tx) ==
  SubSeq(InputSats(view, tx.input), SumSeq(tx.output) + 1, Len(InputSats(view, tx.input)))

\* the fees of the transactions i.. of the block, in block order
RECURSIVE FeesFrom(_, _, _)
FeesFrom(view, txdata, i) ==
  IF i > Len(txdata) THEN <<>>
  ELSE FeeSats(view, txdata[i]) \o FeesFrom(view, txdata, i + 1)

\* the subsidy sats of the height the block is indexed at, then the fees
CoinbaseSats ==
  SatSeq(SubsidyRanges(probe.before.up.height))
    \o FeesFrom(View(probe.before.w, probe.before.up), probe.block.txdata, 2)

\* the block was indexed without error
BlockIndexed == probe.pc = "indexed" /\ probe.s.err = "none"

\* C16: the coinbase transaction is assigned from the subsidy range of the
\* block followed by the fee ranges left by the other transactions, in block
\* order and in their range order: the sats of the coinbase outputs are the
\* first sats of that sequence, subsidy sats before fee sats.
CoinbaseTakesSubsidyThenFees ==
  BlockIndexed =>
    /\ SumSeq(probe.block.txdata[1].output) <= Len(CoinbaseSats)
    /\ SatSeq(OutputRanges(probe.s.up.cache, probe.block.txdata[1], 0))
         = SubSeq(CoinbaseSats, 1, SumSeq(probe.block.txdata[1].output))
    /\ \A i \in 2..Len(probe.block.txdata) :
         SatSeq(OutputRanges(probe.s.up.cache, probe.block.txdata[i], 0))
           = SubSeq(InputSats(View(probe.before.w, probe.before.up), probe.block.txdata[i].input),
                    1, SumSeq(probe.block.txdata[i].output))

\* the coinbase of block 1 holds the subsidy range, then the fee range of the
\* first transaction, then the fee range of the second
SubsidyThenFeesInBlockOrder ==
  /\ BlockIndexed
  /\ Len(probe.block.txdata) = 3
  /\ DecodeList(probe.s.up.cache[OutPoint(probe.block.txdata[1].txid, 0)])
       = <<<<50, 100>>, <<49, 50>>, <<29, 30>>>>

----------------------------------------------------------------------------
(* Inscriptions follow the outpoint they rest on.                          *)

\* the outpoints the last transaction spent
SpentByTx == {probe.tx.input[i] : i \in 1..Len(probe.tx.input)}

\* a transaction has been indexed
TxIndexed == probe.pc = "txs" /\ probe.n > 0 /\ probe.s.err = "none"

\* C17: when a transaction T spends an outpoint, in either mode, every
\* inscription that had a SATPOINT_TO_INSCRIPTION_ID row under that outpoint
\* maps to the satpoint (T:0, 0) in INSCRIPTION_ID_TO_SATPOINT afterwards, no
\* row remains under the outpoint, and the rows of inscriptions on outpoints
\* that T does not spend are unchanged in both tables.
SpentInscriptionsMove ==
  TxIndexed =>
    /\ \A sp \in DOMAIN probe.before.s2i :
         sp[1] \in SpentByTx =>
           /\ Has(probe.s.w.i2s, probe.before.s2i[sp])
           /\ probe.s.w.i2s[probe.before.s2i[sp]] = NewSatPoint(probe.tx.txid)
    /\ \A sp \in DOMAIN probe.s.w.s2i : sp[1] \notin SpentByTx
    /\ \A sp \in DOMAIN probe.before.s2i :
         sp[1] \notin SpentByTx =>
           /\ Has(probe.s.w.s2i, sp)
           /\ probe.s.w.s2i[sp] = probe.before.s2i[sp]
    /\ \A id \in DOMAIN probe.before.i2s :
         probe.before.i2s[id][1] \notin SpentByTx =>
           /\ Has(probe.s.w.i2s, id)
           /\ probe.s.w.i2s[id] = probe.before.i2s[id]

\* a transaction moved an inscription and left another one where it was
MovedOneLeftOne ==
  /\ TxIndexed
  /\ \E sp \in DOMAIN probe.before.s2i :
       /\ sp[1] \in SpentByTx
       /\ probe.s.w.i2s[probe.before.s2i[sp]] = NewSatPoint(probe.tx.txid)
  /\ \E sp \in DOMAIN probe.before.s2i :
       /\ sp[1] \notin SpentByTx
       /\ probe.s.w.s2i[sp] = probe.before.s2i[sp]

----------------------------------------------------------------------------
(* Retries of a fetch.                                                     *)

\* the call runs in a build that is not a test build
Retrying == probe.pc \in {"call", "sleep", "returned"} /\ ~probe.test

\* C18: outside test builds, the e-th consecutive failure of a fetch is
\* followed by a sleep of 2^e seconds (2, 4, 8, 16, 32, 64) and another
\* request; the 7th failure, whose sleep would exceed 120 seconds, returns the
\* error without a sleep; an answer of the node, a block or no block, returns
\* at once and is never counted as a failure or retried.
RetriesBackOff ==
  Retrying =>
    /\ probe.slept = [e \in 1..Len(probe.slept) |-> 2 ^ e]
    /\ \A e \in 1..Len(probe.slept) : probe.slept[e] \in {2, 4, 8, 16, 32, 64}
    /\ probe.pc = "call" => (probe.requests = probe.errors /\ Len(probe.slept) = probe.errors)
    /\ probe.pc = "sleep" =>
         (probe.last = "failed" /\ probe.requests = probe.errors
            /\ Len(probe.slept) = probe.errors - 1)
    /\ probe.returned.kind = "error" =>
         (probe.last = "failed" /\ probe.errors = 7 /\ probe.requests = 7
            /\ Len(probe.slept) = 6)
    /\ probe.returned.kind \in {"block", "absent"} =>
         (probe.last = "ok" /\ probe.requests = probe.errors + 1
            /\ Len(probe.slept) = probe.errors
            /\ probe.returned = Answer(probe.height, with_transactions))
    /\ probe.last = "ok" => (probe.pc = "returned" /\ probe.returned.kind \in {"block", "absent"})

\* the fetch gave up on the 7th failure, after six sleeps
GaveUpAfterSixSleeps ==
  /\ Retrying
  /\ probe.returned.kind = "error"
  /\ probe.slept = <<2, 4, 8, 16, 32, 64>>

----------------------------------------------------------------------------
(* The end of the two threads.                                             *)

\* the producer thread runs
Producing == ppc \in {"fetch", "send"}

\* C19: once the consumer has returned, a send of the producer fails and ends
\* its loop, so that it makes at most one; the producer takes no step after
\* its loop has ended; no step of the producer changes the store or the
\* updater; a producer waiting on a full queue can go on once the consumer
\* has returned; and the producer does terminate.
ProducerStopsAfterClose ==
  /\ [][(cpc = "done" /\ ppc = "send" /\ ppc' # ppc) =>
          (ppc' = "disconnected" /\ pheight' = pheight /\ queue' = queue)]_vars
  /\ [][(cpc = "done" /\ ProducerExited) => (ppc' = ppc /\ pheight' = pheight)]_vars
  /\ [][(Producing /\ ppc' # ppc) =>
          (committed' = committed /\ wtx' = wtx /\ updater' = updater
             /\ uncommitted' = uncommitted /\ result' = result)]_vars
  /\ []((cpc = "done" /\ ppc = "send") => ENABLED ProducerSend)
  /\ (cpc = "done") ~> ProducerExited

\* the consumer returned while the queue was full and the producer held one
\* more block: its send is no longer waiting
BlockedProducerReleased ==
  /\ cpc = "done"
  /\ INTERRUPTS > 0
  /\ ppc = "send"
  /\ pheight - updater.height = QueueCapacity
  /\ ENABLED ProducerSend

\* the producer has ended its loop for a reason of its own
ProducerGone == ppc \in {"none", "limit", "failed"}

\* the step in which the consumer returns after the producer has gone
ReturnsAfterProducer == Running /\ ProducerGone /\ cpc' = "done"

\* every block that was sent is indexed and committed, in the order of the source
AllSentCommitted ==
  /\ updater'.height = pheight
  /\ DOMAIN committed'.h2h = 0..(pheight - 1)
  /\ \A h \in 0..(pheight - 1) : committed'.h2h[h] = source[h + 1].hash

----------------------------------------------------------------------------
(* No sat in two ranges.                                                   *)

\* the ranges of the merged view, each with its outpoint and its place in the list
ViewRanges(view) ==
  UNION {{<<o, i, DecodeList(view[o])[i]>> : i \in 1..Len(DecodeList(view[o]))} :
           o \in DOMAIN view}

\* two ranges share a sat
Overlap(r, q) == r[1] < r[2] /\ q[1] < q[2] /\ r[1] < q[2] /\ q[1] < r[2]

\* the ranges of a set are pairwise disjoint and no larger than the largest subsidy
DisjointAndSmall(ranges) ==
  /\ \A x \in ranges : 0 <= x[3][1] /\ x[3][1] <= x[3][2] /\ RangeSize(x[3]) <= InitialSubsidy
  /\ \A x, y \in ranges : (x[1] # y[1] \/ x[2] # y[2]) => ~Overlap(x[3], y[3])

\* C21: between the blocks of a successful run with satoshi indexing on, the
\* ranges of the merged view of cache and table are pairwise disjoint, within
\* each range list and across the lists of all outpoints, and every range
\* has at most the size of the largest block subsidy.
NoSatInTwoRanges ==
  (updater.index_satoshis /\ Successful) => DisjointAndSmall(ViewRanges(View(wtx, updater)))

\* several outpoints hold ranges, one of them a list of several ranges, and
\* a range has been split
SplitAndMergedRanges ==
  /\ updater.index_satoshis
  /\ Successful
  /\ updater.height >= 2
  /\ \E x, y \in ViewRanges(View(wtx, updater)) :
       /\ x[1] # y[1]
       /\ x[2] > 1
       /\ RangeSize(y[3]) > 0
       /\ RangeSize(y[3]) < subsidy(0)
       /\ RangeSize(x[3]) > 0

====
